---- MODULE Spec2Model ----
\* The LTM monitor resource of the BIG-IP provider
\* (bigip/resource_bigip_ltm_monitor.go): the five lifecycle handlers the
\* plugin host calls on one resource instance, the parent validator, and the
\* remote device as the handlers see it through the API client.
EXTENDS Integers, Sequences, FiniteSets, TLC

\* ---------------------------------------------------------------- bounds
\* The device holds at most MaxMonitors monitors.
MaxMonitors == 2

\* ------------------------------------------------------ schema defaults
DefaultInterval == 3
DefaultTimeout == 16
DefaultIpDscp == 0
DefaultTimeUntilUp == 0

VARIABLES
    id,       \* d.Id(): the resource ID, "" when unset
    attrs,    \* the attributes d.Get / d.Set work on
    device,   \* the monitors of the remote device, in the order Monitors() lists them
    last,     \* the last handler invocation: its entry state, remote calls and return
    created,  \* the name a Create returned nil for, until a Delete of it returns nil
    deleted   \* the name a Delete returned nil for, until CreateMonitor makes it again

vars == <<id, attrs, device, last, created, deleted>>

\* ------------------------------------------------------------ pure helpers
CommonPrefix == "/Common/"

\* strings.TrimPrefix(s, "/Common/")
monitorParent(s) ==
    IF Len(s) >= Len(CommonPrefix) /\ SubSeq(s, 1, Len(CommonPrefix)) = CommonPrefix
    THEN SubSeq(s, Len(CommonPrefix) + 1, Len(s))
    ELSE s

ParentError ==
    "parent must be one of /Common/http, /Common/https, /Common/icmp, /Common/gateway-icmp, /Common/tcp-half-open,  or /Common/tcp"

\* Variant: the validator trims the prefix before comparing, so bare names pass.
validateParentBare(p) ==
    IF monitorParent(p) \in { "http", "https", "icmp", "gateway-icmp", "tcp", "tcp-half-open" }
    THEN [warnings |-> <<>>, errors |-> <<>>]
    ELSE [warnings |-> <<>>, errors |-> <<ParentError>>]

\* validateParent: (nil, nil) for the six built-in parents, one error otherwise
validateParent(p) ==
    IF p = "/Common/http" \/ p = "/Common/https" \/ p = "/Common/icmp"
       \/ p = "/Common/gateway-icmp" \/ p = "/Common/tcp" \/ p = "/Common/tcp-half-open"
    THEN [warnings |-> <<>>, errors |-> <<>>]
    ELSE [warnings |-> <<>>, errors |-> <<ParentError>>]

\* ------------------------------------------------------------- the inputs
\* Strings the host may hand to the parent validator.
ParentInputs ==
    { "/Common/http", "/Common/https", "/Common/icmp", "/Common/gateway-icmp",
      "/Common/tcp", "/Common/tcp-half-open",
      "http", "https", "icmp", "gateway-icmp", "tcp", "tcp-half-open",
      "", "/Common/", "/Common/udp", "/common/http", "/Common/http/", "Common/tcp" }

\* Full paths of monitors: the one the configuration names, and another.
ManagedName == "/Common/m1"
Names == { ManagedName, "/Common/m2" }
Parents == { "/Common/http" }

\* The schema with only name and parent given: every Optional field at its
\* Default, or at the zero value where the schema has none.
SchemaDefaults(name, parent) ==
    [ name |-> name, parent |-> parent, defaults_from |-> "",
      interval |-> DefaultInterval, timeout |-> DefaultTimeout,
      send |-> "", receive |-> "", receive_disable |-> "", reverse |-> "",
      transparent |-> "disabled", manual_resume |-> "disabled",
      ip_dscp |-> DefaultIpDscp, time_until_up |-> DefaultTimeUntilUp,
      destination |-> "*:*" ]

\* A configuration that sets every optional field except defaults_from.
Tuned(c) ==
    [ c EXCEPT !.interval = 5, !.timeout = 31,
               !.send = "GET /", !.receive = "200 OK", !.receive_disable = "503",
               !.reverse = "enabled", !.transparent = "enabled",
               !.manual_resume = "enabled", !.ip_dscp = 8,
               !.time_until_up = 10, !.destination = "*:80" ]

\* The configurations a user may author for the managed monitor.
Configs ==
    UNION { { SchemaDefaults(ManagedName, p),
              [ SchemaDefaults(ManagedName, p) EXCEPT !.defaults_from = "/Common/http" ],
              Tuned(SchemaDefaults(ManagedName, p)) } : p \in Parents }

\* A schema.ResourceData with nothing set (what an import starts from).
EmptyAttrs ==
    [ name |-> "", parent |-> "", defaults_from |-> "", interval |-> 0, timeout |-> 0,
      send |-> "", receive |-> "", receive_disable |-> "", reverse |-> "",
      transparent |-> "", manual_resume |-> "", ip_dscp |-> 0, time_until_up |-> 0,
      destination |-> "" ]

\* ------------------------------------------------- the remote API client
\* One entry of the record of remote calls an invocation makes: the call, the
\* resource ID at the moment of the call, and whether it returned nil.
Call(api, atId, ok) == [api |-> api, id |-> atId, ok |-> ok]

HasMonitor(dev, name) == \E i \in 1..Len(dev) : dev[i].FullPath = name

Slot(dev, name, parent) ==
    { i \in 1..Len(dev) : dev[i].FullPath = name /\ dev[i].ParentMonitor = parent }

\* client.CreateMonitor(name, parent, defaults_from, interval, timeout, send,
\* receive, receive_disable): the device makes the monitor with the eight
\* values given and its own defaults for the rest, or the call fails.
CreateMonitor(dev, name, parent, a, o) ==
    IF o.create /\ Slot(dev, name, parent) = {} /\ Len(dev) < MaxMonitors
    THEN [ ok |-> TRUE,
           dev |-> Append(dev,
              [ FullPath |-> name, ParentMonitor |-> parent,
                DefaultsFrom |-> a.defaults_from, Interval |-> a.interval,
                Timeout |-> a.timeout, SendString |-> a.send,
                ReceiveString |-> a.receive, ReceiveDisable |-> a.receive_disable,
                Reverse |-> "disabled", Transparent |-> "disabled",
                IPDSCP |-> 0, TimeUntilUp |-> 0, ManualResume |-> "disabled",
                Destination |-> "*:*" ]) ]
    ELSE [ ok |-> FALSE, dev |-> dev ]

\* client.ModifyMonitor(name, parent, m): the device sets the fields m
\* carries on the monitor at (parent, name) and leaves the others, or the
\* call fails.
ModifyMonitor(dev, name, parent, m, o) ==
    IF o.modify /\ Slot(dev, name, parent) # {}
    THEN LET i == CHOOSE j \in Slot(dev, name, parent) : TRUE
         IN [ ok |-> TRUE,
              dev |-> [ dev EXCEPT ![i] =
                 [ @ EXCEPT !.Interval = m.Interval, !.Timeout = m.Timeout,
                            !.SendString = m.SendString,
                            !.ReceiveString = m.ReceiveString,
                            !.ReceiveDisable = m.ReceiveDisable,
                            !.Reverse = m.Reverse, !.Transparent = m.Transparent,
                            !.IPDSCP = m.IPDSCP, !.TimeUntilUp = m.TimeUntilUp,
                            !.ManualResume = m.ManualResume,
                            !.Destination = m.Destination ] ] ]
    ELSE [ ok |-> FALSE, dev |-> dev ]

\* client.Monitors(): the list of the device's monitors (nil or empty when it
\* has none), or an error.
Monitors(dev, o) ==
    IF o.list
    THEN [ ok |-> TRUE, isNil |-> (dev = <<>> /\ o.nilList), list |-> dev ]
    ELSE [ ok |-> FALSE, isNil |-> TRUE, list |-> <<>> ]

\* client.DeleteMonitor(name, parent): the device drops the monitor at
\* (parent, name), or the call fails.
DeleteMonitor(dev, name, parent, o) ==
    IF o.delete /\ Slot(dev, name, parent) # {}
    THEN [ ok |-> TRUE,
           dev |-> SelectSeq(dev, LAMBDA m : ~(m.FullPath = name /\ m.ParentMonitor = parent)) ]
    ELSE [ ok |-> FALSE, dev |-> dev ]

\* What the environment decides in one invocation: which remote calls fail.
Outcomes ==
    [ create : BOOLEAN, modify : BOOLEAN, list : BOOLEAN, nilList : BOOLEAN,
      delete : BOOLEAN ]

\* The outcomes that differ in a call the handler can reach.
CreateOutcomes == { o \in Outcomes : o.delete }
UpdateOutcomes == { o \in Outcomes : o.delete /\ o.create }
ReadOutcomes == { o \in Outcomes : o.delete /\ o.create /\ o.modify }
DeleteOutcomes == { o \in Outcomes : o.create /\ o.modify /\ o.list /\ o.nilList }

\* ------------------------------------------------------------ the handlers
\* Each handler is given d (the ID and the attributes), the device and the
\* environment's outcomes, and yields d and the device as it leaves them, the
\* remote calls it made in order, whether it returned an error, and (Exists)
\* its boolean.
Return(rid, a, dev, calls, err, exists) ==
    [ id |-> rid, attrs |-> a, dev |-> dev, calls |-> calls, err |-> err,
      exists |-> exists ]

Matches(list, name) == { i \in 1..Len(list) : list[i].FullPath = name }

\* for _, m := range monitors { if m.FullPath == name { ... return } }
FirstMatch(list, name) ==
    CHOOSE i \in Matches(list, name) : \A j \in Matches(list, name) : i <= j

\* the fourteen d.Set calls of Read
FromMonitor(m) ==
    [ name |-> m.FullPath, parent |-> m.ParentMonitor,
      defaults_from |-> m.DefaultsFrom, interval |-> m.Interval,
      timeout |-> m.Timeout, send |-> m.SendString, receive |-> m.ReceiveString,
      receive_disable |-> m.ReceiveDisable, reverse |-> m.Reverse,
      transparent |-> m.Transparent, ip_dscp |-> m.IPDSCP,
      time_until_up |-> m.TimeUntilUp, manual_resume |-> m.ManualResume,
      destination |-> m.Destination ]

\* Variant: Read takes the last monitor of the list with the ID's path.
ReadTakesLastMatch(d, dev, o) ==
    LET name == d.id
        r == Monitors(dev, o)
        c == << Call("Monitors", d.id, r.ok) >>
        hit == CHOOSE i \in Matches(r.list, name) : \A j \in Matches(r.list, name) : j <= i
    IN  IF ~r.ok THEN Return(d.id, d.attrs, dev, c, TRUE, FALSE)
        ELSE IF r.isNil THEN Return("", d.attrs, dev, c, FALSE, FALSE)
        ELSE IF Matches(r.list, name) # {}
             THEN Return(d.id, FromMonitor(r.list[hit]), dev, c, FALSE, FALSE)
             ELSE Return("", d.attrs, dev, c, FALSE, FALSE)

\* Variant: Read compares FullPath with the ID stripped of its partition.
ReadMatchesBareName(d, dev, o) ==
    LET name == monitorParent(d.id)
        r == Monitors(dev, o)
        c == << Call("Monitors", d.id, r.ok) >>
    IN  IF ~r.ok THEN Return(d.id, d.attrs, dev, c, TRUE, FALSE)
        ELSE IF r.isNil THEN Return("", d.attrs, dev, c, FALSE, FALSE)
        ELSE IF Matches(r.list, name) # {}
             THEN Return(d.id, FromMonitor(r.list[FirstMatch(r.list, name)]), dev, c,
                         FALSE, FALSE)
             ELSE Return("", d.attrs, dev, c, FALSE, FALSE)

resourceBigipLtmMonitorRead(d, dev, o) ==
    LET name == d.id
        r == Monitors(dev, o)
        c == << Call("Monitors", d.id, r.ok) >>
    IN  IF ~r.ok THEN Return(d.id, d.attrs, dev, c, TRUE, FALSE)
        ELSE IF r.isNil THEN Return("", d.attrs, dev, c, FALSE, FALSE)
        ELSE IF Matches(r.list, name) # {}
             THEN Return(d.id, FromMonitor(r.list[FirstMatch(r.list, name)]), dev, c,
                         FALSE, FALSE)
             ELSE Return("", d.attrs, dev, c, FALSE, FALSE)

\* Variant: Exists also requires the listed monitor to have the local parent.
ExistsChecksParent(d, dev, o) ==
    LET name == d.id
        parent == monitorParent(d.attrs.parent)
        r == Monitors(dev, o)
        c == << Call("Monitors", d.id, r.ok) >>
    IN  IF ~r.ok THEN Return(d.id, d.attrs, dev, c, TRUE, FALSE)
        ELSE IF r.isNil THEN Return(d.id, d.attrs, dev, c, FALSE, FALSE)
        ELSE Return(d.id, d.attrs, dev, c, FALSE,
                    \E i \in Matches(r.list, name) : r.list[i].ParentMonitor = parent)

resourceBigipLtmMonitorExists(d, dev, o) ==
    LET name == d.id
        r == Monitors(dev, o)
        c == << Call("Monitors", d.id, r.ok) >>
    IN  IF ~r.ok THEN Return(d.id, d.attrs, dev, c, TRUE, FALSE)
        ELSE IF r.isNil THEN Return(d.id, d.attrs, dev, c, FALSE, FALSE)
        ELSE Return(d.id, d.attrs, dev, c, FALSE, Matches(r.list, name) # {})

\* m := &bigip.Monitor{...}: the eleven fields Update sends
UpdateRequest(a) ==
    [ Interval |-> a.interval, Timeout |-> a.timeout, SendString |-> a.send,
      ReceiveString |-> a.receive, ReceiveDisable |-> a.receive_disable,
      Reverse |-> a.reverse, Transparent |-> a.transparent, IPDSCP |-> a.ip_dscp,
      TimeUntilUp |-> a.time_until_up, ManualResume |-> a.manual_resume,
      Destination |-> a.destination ]

\* Variant: Update deletes the monitor when ModifyMonitor fails.
UpdateRollsBack(d, dev, o) ==
    LET name == d.id
        parent == monitorParent(d.attrs.parent)
        r == ModifyMonitor(dev, name, parent, UpdateRequest(d.attrs), o)
        c == << Call("ModifyMonitor", d.id, r.ok) >>
    IN  IF ~r.ok
        THEN LET del == DeleteMonitor(r.dev, name, parent, o)
             IN  Return(d.id, d.attrs, del.dev,
                        c \o << Call("DeleteMonitor", d.id, del.ok) >>, TRUE, FALSE)
        ELSE LET rd == resourceBigipLtmMonitorRead(d, r.dev, o)
             IN  [ rd EXCEPT !.calls = c \o rd.calls ]

resourceBigipLtmMonitorUpdate(d, dev, o) ==
    LET name == d.id
        parent == monitorParent(d.attrs.parent)
        r == ModifyMonitor(dev, name, parent, UpdateRequest(d.attrs), o)
        c == << Call("ModifyMonitor", d.id, r.ok) >>
    IN  IF ~r.ok THEN Return(d.id, d.attrs, r.dev, c, TRUE, FALSE)
        ELSE LET rd == resourceBigipLtmMonitorRead(d, r.dev, o)
             IN  [ rd EXCEPT !.calls = c \o rd.calls ]

\* Variant: Create sets the ID before it calls CreateMonitor.
CreateSetsIdFirst(d, dev, o) ==
    LET name == d.attrs.name
        parent == monitorParent(d.attrs.parent)
        r == CreateMonitor(dev, name, parent, d.attrs, o)
        c == << Call("CreateMonitor", name, r.ok) >>
    IN  IF ~r.ok THEN Return(name, d.attrs, r.dev, c, TRUE, FALSE)
        ELSE LET up == resourceBigipLtmMonitorUpdate(
                          [ id |-> name, attrs |-> d.attrs ], r.dev, o)
             IN  [ up EXCEPT !.calls = c \o up.calls ]

\* Variant: Create unsets the ID again when the update it ends with fails.
CreateDiscardsIdOnError(d, dev, o) ==
    LET name == d.attrs.name
        parent == monitorParent(d.attrs.parent)
        r == CreateMonitor(dev, name, parent, d.attrs, o)
        c == << Call("CreateMonitor", d.id, r.ok) >>
    IN  IF ~r.ok THEN Return(d.id, d.attrs, r.dev, c, TRUE, FALSE)
        ELSE LET up == resourceBigipLtmMonitorUpdate(
                          [ id |-> name, attrs |-> d.attrs ], r.dev, o)
             IN  [ up EXCEPT !.calls = c \o up.calls,
                             !.id = IF up.err THEN "" ELSE up.id ]

resourceBigipLtmMonitorCreate(d, dev, o) ==
    LET name == d.attrs.name
        parent == monitorParent(d.attrs.parent)
        r == CreateMonitor(dev, name, parent, d.attrs, o)
        c == << Call("CreateMonitor", d.id, r.ok) >>
    IN  IF ~r.ok THEN Return(d.id, d.attrs, r.dev, c, TRUE, FALSE)
        ELSE LET up == resourceBigipLtmMonitorUpdate(
                          [ id |-> name, attrs |-> d.attrs ], r.dev, o)
             IN  [ up EXCEPT !.calls = c \o up.calls ]

\* Variant: Delete unsets the ID before it looks at the error.
DeleteUnsetsIdAnyway(d, dev, o) ==
    LET name == d.id
        parent == monitorParent(d.attrs.parent)
        r == DeleteMonitor(dev, name, parent, o)
        c == << Call("DeleteMonitor", d.id, r.ok) >>
    IN  Return("", d.attrs, r.dev, c, ~r.ok, FALSE)

resourceBigipLtmMonitorDelete(d, dev, o) ==
    LET name == d.id
        parent == monitorParent(d.attrs.parent)
        r == DeleteMonitor(dev, name, parent, o)
        c == << Call("DeleteMonitor", d.id, r.ok) >>
    IN  IF ~r.ok THEN Return(d.id, d.attrs, r.dev, c, TRUE, FALSE)
        ELSE Return("", d.attrs, r.dev, c, FALSE, FALSE)

\* --------------------------------------------------------- the state machine
NoValidation == [ input |-> "", warnings |-> <<>>, errors |-> <<>> ]

Invocation(op, d, dev, r, v) ==
    [ op |-> op, d0 |-> d, dev0 |-> dev, calls |-> r.calls, err |-> r.err,
      exists |-> r.exists, validation |-> v ]

Init ==
    /\ id = ""
    /\ attrs = EmptyAttrs
    /\ device = << >>
    /\ last = Invocation("none", [ id |-> "", attrs |-> EmptyAttrs ], << >>,
                         Return("", EmptyAttrs, << >>, << >>, FALSE, FALSE),
                         NoValidation)
    /\ created = ""
    /\ deleted = ""

CreateMonitorMade(r) == r.calls # << >> /\ r.calls[1].api = "CreateMonitor" /\ r.calls[1].ok

\* The host leaves d and the device as the handler left them.
Apply(op, d, r) ==
    /\ id' = r.id
    /\ attrs' = r.attrs
    /\ device' = r.dev
    /\ last' = Invocation(op, d, device, r, NoValidation)

\* ValidateFunc of "parent", run by the host on a configured value.
Validate(p) ==
    /\ id = ""
    /\ last' = [ Invocation("Validate", [ id |-> id, attrs |-> attrs ], device,
                            Return(id, attrs, device, << >>, FALSE, FALSE),
                            [ input |-> p ] @@ validateParent(p)) EXCEPT !.calls = << >> ]
    /\ UNCHANGED <<id, attrs, device, created, deleted>>

\* The host creates the resource from a configuration that passed validation.
Create(cfg, o) ==
    /\ id = ""
    /\ validateParent(cfg.parent).errors = << >>
    /\ LET d == [ id |-> id, attrs |-> cfg ]
           r == resourceBigipLtmMonitorCreate(d, device, o)
       IN  /\ Apply("Create", d, r)
           /\ created' = IF ~r.err THEN cfg.name ELSE created
           /\ deleted' = IF CreateMonitorMade(r) /\ deleted = cfg.name THEN "" ELSE deleted

Read(o) ==
    /\ id # ""
    /\ LET d == [ id |-> id, attrs |-> attrs ]
       IN  Apply("Read", d, resourceBigipLtmMonitorRead(d, device, o))
    /\ UNCHANGED <<created, deleted>>

Exists(o) ==
    /\ id # ""
    /\ LET d == [ id |-> id, attrs |-> attrs ]
       IN  Apply("Exists", d, resourceBigipLtmMonitorExists(d, device, o))
    /\ UNCHANGED <<created, deleted>>

\* name and parent are ForceNew: an update keeps both.
Update(cfg, o) ==
    /\ id # ""
    /\ cfg.name = id
    /\ monitorParent(cfg.parent) = monitorParent(attrs.parent)
    /\ LET d == [ id |-> id, attrs |-> cfg ]
       IN  Apply("Update", d, resourceBigipLtmMonitorUpdate(d, device, o))
    /\ UNCHANGED <<created, deleted>>

Delete(o) ==
    /\ id # ""
    /\ LET d == [ id |-> id, attrs |-> attrs ]
           r == resourceBigipLtmMonitorDelete(d, device, o)
       IN  /\ Apply("Delete", d, r)
           /\ created' = IF ~r.err /\ created = id THEN "" ELSE created
           /\ deleted' = IF ~r.err THEN id ELSE deleted

\* Importer: schema.ImportStatePassthrough sets the ID to the string given.
Import(n) ==
    /\ id = ""
    /\ id' = n
    /\ attrs' = EmptyAttrs
    /\ last' = Invocation("Import", [ id |-> id, attrs |-> attrs ], device,
                          Return(n, EmptyAttrs, device, << >>, FALSE, FALSE),
                          NoValidation)
    /\ UNCHANGED <<device, created, deleted>>

\* Someone else removes a monitor from the device.
OutOfBandRemove(i) ==
    /\ i \in 1..Len(device)
    /\ device' = SubSeq(device, 1, i - 1) \o SubSeq(device, i + 1, Len(device))
    /\ last' = Invocation("OutOfBandRemove", [ id |-> id, attrs |-> attrs ], device,
                          Return(id, attrs, device', << >>, FALSE, FALSE), NoValidation)
    /\ UNCHANGED <<id, attrs, created, deleted>>

\* A monitor as the device lists it.
Monitor(name, parent, c) ==
    [ FullPath |-> name, ParentMonitor |-> parent,
      DefaultsFrom |-> c.defaults_from, Interval |-> c.interval,
      Timeout |-> c.timeout, SendString |-> c.send, ReceiveString |-> c.receive,
      ReceiveDisable |-> c.receive_disable, Reverse |-> c.reverse,
      Transparent |-> c.transparent, IPDSCP |-> c.ip_dscp,
      TimeUntilUp |-> c.time_until_up, ManualResume |-> c.manual_resume,
      Destination |-> c.destination ]

\* The monitors someone else may make on the device.
ForeignMonitors ==
    { Monitor(ManagedName, "tcp", Tuned(SchemaDefaults(ManagedName, "tcp"))),
      Monitor(ManagedName, "http", SchemaDefaults(ManagedName, "http")),
      Monitor("/Common/m2", "http", SchemaDefaults("/Common/m2", "http")) }

\* Someone else makes a monitor on the device.
OutOfBandAdd(m) ==
    /\ Len(device) < MaxMonitors
    /\ Slot(device, m.FullPath, m.ParentMonitor) = {}
    /\ device' = << m >> \o device
    /\ last' = Invocation("OutOfBandAdd", [ id |-> id, attrs |-> attrs ], device,
                          Return(id, attrs, device', << >>, FALSE, FALSE), NoValidation)
    /\ UNCHANGED <<id, attrs, created, deleted>>

Next ==
    \/ \E p \in ParentInputs : Validate(p)
    \/ \E cfg \in Configs, o \in CreateOutcomes : Create(cfg, o)
    \/ \E o \in ReadOutcomes : Read(o)
    \/ \E o \in ReadOutcomes : Exists(o)
    \/ \E cfg \in Configs, o \in UpdateOutcomes : Update(cfg, o)
    \/ \E o \in DeleteOutcomes : Delete(o)
    \/ \E n \in Names : Import(n)
    \/ \E i \in 1..MaxMonitors : OutOfBandRemove(i)
    \/ \E m \in ForeignMonitors : OutOfBandAdd(m)

Spec == Init /\ [][Next]_vars

\* The same resource against a device that no one else modifies.
NextOwned ==
    \/ \E p \in ParentInputs : Validate(p)
    \/ \E cfg \in Configs, o \in CreateOutcomes : Create(cfg, o)
    \/ \E o \in ReadOutcomes : Read(o)
    \/ \E o \in ReadOutcomes : Exists(o)
    \/ \E cfg \in Configs, o \in UpdateOutcomes : Update(cfg, o)
    \/ \E o \in DeleteOutcomes : Delete(o)
    \/ \E n \in Names : Import(n)

SpecOwned == Init /\ [][NextOwned]_vars

\* ------------------------------------------------------------- properties
TypeOK ==
    /\ id \in Names \cup { "" }
    /\ Len(device) <= MaxMonitors
    /\ created \in Names \cup { "" }
    /\ deleted \in Names \cup { "" }

Handlers == { "Create", "Read", "Update", "Delete", "Exists" }

ApiSeq(calls) == [ i \in 1..Len(calls) |-> calls[i].api ]

ListFailed == last.calls # << >> /\ ~last.calls[Len(last.calls)].ok
              /\ last.calls[Len(last.calls)].api = "Monitors"

BuiltinParents ==
    { "/Common/http", "/Common/https", "/Common/icmp", "/Common/gateway-icmp",
      "/Common/tcp", "/Common/tcp-half-open" }

\* C1: validateParent returns no errors and no warnings exactly for the six
\* built-in parents /Common/http, /Common/https, /Common/icmp,
\* /Common/gateway-icmp, /Common/tcp, /Common/tcp-half-open; for every other
\* string (bare names and the empty string too) it returns exactly one error
\* and no warnings.
C1_ValidateParent ==
    last.op = "Validate" =>
        /\ last.validation.warnings = << >>
        /\ (last.validation.input \in BuiltinParents <=> last.validation.errors = << >>)
        /\ (last.validation.input \notin BuiltinParents => Len(last.validation.errors) = 1)

C1_Witness ==
    /\ last.op = "Validate"
    /\ last.validation.input = "http"
    /\ Len(last.validation.errors) = 1

\* C2: in Create, Read, Update, Delete and Exists, a remote call that returns
\* an error is the last remote call of the invocation (no retry, no
\* compensating call) and the invocation returns an error.
C2_ErrorEndsInvocation ==
    last.op \in Handlers =>
        \A i \in 1..Len(last.calls) :
            ~last.calls[i].ok => (i = Len(last.calls) /\ last.err)

C2_Witness ==
    /\ last.op = "Create"
    /\ ApiSeq(last.calls) = << "CreateMonitor", "ModifyMonitor" >>
    /\ last.calls[1].ok /\ ~last.calls[2].ok
    /\ last.err

\* The twelve attributes a user configures besides name and parent.
Configured ==
    { "defaults_from", "interval", "timeout", "send", "receive", "receive_disable",
      "reverse", "transparent", "manual_resume", "ip_dscp", "time_until_up",
      "destination" }

\* The same twelve as the device reports them.
Reported(m) ==
    [ defaults_from |-> m.DefaultsFrom, interval |-> m.Interval, timeout |-> m.Timeout,
      send |-> m.SendString, receive |-> m.ReceiveString,
      receive_disable |-> m.ReceiveDisable, reverse |-> m.Reverse,
      transparent |-> m.Transparent, manual_resume |-> m.ManualResume,
      ip_dscp |-> m.IPDSCP, time_until_up |-> m.TimeUntilUp,
      destination |-> m.Destination ]

\* C3: after a Create or Update that returns without error, every configured
\* attribute (defaults_from, interval, timeout, send, receive, receive_disable,
\* reverse, transparent, manual_resume, ip_dscp, time_until_up, destination)
\* has the configured value on the remote monitor and in the local state; so
\* too after an Update that changes only defaults_from.
C3_Synchronized ==
    (last.op \in { "Create", "Update" } /\ ~last.err) =>
        /\ \A f \in Configured : attrs[f] = last.d0.attrs[f]
        /\ \E i \in 1..Len(device) :
              /\ device[i].FullPath = last.d0.attrs.name
              /\ \A f \in Configured : Reported(device[i])[f] = last.d0.attrs[f]

\* C4 as stated: on a device no one else modifies, after a successful Create
\* of N every Exists returns (true, nil) and the ID stays N until a Delete of N
\* succeeds; after a successful Delete the ID is empty, the device has no N
\* and an Exists for N returns (false, nil).
C4_LifecycleAsStated ==
    /\ created # "" =>
          /\ id = created
          /\ (last.op = "Exists" => (last.exists /\ ~last.err))
    /\ (last.op = "Delete" /\ ~last.err) =>
          (id = "" /\ ~HasMonitor(device, last.d0.id))
    /\ deleted # "" =>
          /\ ~HasMonitor(device, deleted)
          /\ (last.op = "Exists" /\ last.d0.id = deleted) => (~last.exists /\ ~last.err)

\* C4 amended: on a device no one else modifies, after a successful Create of
\* N the ID stays N and the device has N until a Delete of N succeeds, and
\* every Exists whose Monitors call succeeds returns (true, nil); after a
\* successful Delete the ID is empty, the device has no N, and an Exists for N
\* whose Monitors call succeeds returns (false, nil). An Exists whose Monitors
\* call fails returns (false, error).
C4_Lifecycle ==
    /\ created # "" =>
          /\ id = created
          /\ HasMonitor(device, created)
          /\ (last.op = "Exists" /\ ~ListFailed) => (last.exists /\ ~last.err)
    /\ (last.op = "Delete" /\ ~last.err) =>
          (id = "" /\ ~HasMonitor(device, last.d0.id))
    /\ deleted # "" =>
          /\ ~HasMonitor(device, deleted)
          /\ (last.op = "Exists" /\ last.d0.id = deleted /\ ~ListFailed) =>
                (~last.exists /\ ~last.err)
    /\ (last.op = "Exists" /\ ListFailed) => (~last.exists /\ last.err)

C4_Witness ==
    /\ last.op = "Exists"
    /\ deleted # ""
    /\ last.d0.id = deleted
    /\ ~ListFailed
    /\ ~last.exists

\* C5: a Create that returns nil has made exactly the calls CreateMonitor,
\* ModifyMonitor, Monitors in this order, with the ID unset at CreateMonitor
\* and equal to the configured name at ModifyMonitor; a Create whose
\* CreateMonitor fails leaves the ID unset and makes no other call.
C5_CreateOrder ==
    last.op = "Create" =>
        /\ ~last.err =>
              /\ ApiSeq(last.calls) = << "CreateMonitor", "ModifyMonitor", "Monitors" >>
              /\ \A i \in 1..3 : last.calls[i].ok
              /\ last.calls[1].id = ""
              /\ last.calls[2].id = last.d0.attrs.name
        /\ ~last.calls[1].ok =>
              /\ ApiSeq(last.calls) = << "CreateMonitor" >>
              /\ id = ""
              /\ last.err

C5_Witness ==
    /\ last.op = "Create"
    /\ ~last.err
    /\ id = ManagedName
    /\ Len(last.calls) = 3

\* C6: a Read whose Monitors call succeeds with nil, or with no monitor whose
\* FullPath is the ID, sets the ID to "" and returns nil; with such a monitor
\* listed it keeps the ID, sets the fourteen attributes from the first such
\* monitor of the list and returns nil.
C6_ReadAdoptsOrForgets ==
    (last.op = "Read" /\ last.calls[1].ok) =>
        /\ ~last.err
        /\ (~HasMonitor(last.dev0, last.d0.id)) => id = ""
        /\ HasMonitor(last.dev0, last.d0.id) =>
              /\ id = last.d0.id
              /\ \E i \in 1..Len(last.dev0) :
                    /\ last.dev0[i].FullPath = last.d0.id
                    /\ \A j \in 1..(i - 1) : last.dev0[j].FullPath # last.d0.id
                    /\ attrs.name = last.dev0[i].FullPath
                    /\ attrs.parent = last.dev0[i].ParentMonitor
                    /\ \A f \in Configured : attrs[f] = Reported(last.dev0[i])[f]

C6_Witness ==
    /\ last.op = "Read"
    /\ last.calls[1].ok
    /\ Len(last.dev0) = 2
    /\ last.dev0[1].FullPath = last.d0.id
    /\ last.dev0[2].FullPath = last.d0.id
    /\ Reported(last.dev0[1]) # Reported(last.dev0[2])
    /\ id = last.d0.id

\* C7: Exists returns (true, nil) exactly when its Monitors call succeeds and
\* lists a monitor whose FullPath is the ID, whatever the parent attribute;
\* (false, nil) when the list is nil or has no such monitor; (false, error)
\* when the call fails; and it leaves the ID, the attributes and the device
\* as they were.
C7_ExistsPure ==
    last.op = "Exists" =>
        /\ (last.exists /\ ~last.err)
              <=> (last.calls[1].ok /\ HasMonitor(last.dev0, last.d0.id))
        /\ (last.calls[1].ok /\ ~HasMonitor(last.dev0, last.d0.id))
              => (~last.exists /\ ~last.err)
        /\ ~last.calls[1].ok => (~last.exists /\ last.err)
        /\ Len(last.calls) = 1
        /\ id = last.d0.id
        /\ attrs = last.d0.attrs
        /\ device = last.dev0

C7_Witness ==
    /\ last.op = "Exists"
    /\ last.exists
    /\ ~last.err
    /\ \A i \in 1..Len(last.dev0) :
          last.dev0[i].FullPath = last.d0.id
              => last.dev0[i].ParentMonitor # monitorParent(last.d0.attrs.parent)

\* C8: a Delete whose DeleteMonitor fails leaves the ID set; an Update whose
\* ModifyMonitor fails leaves the ID and every attribute as they were and
\* makes no Monitors call; a Read whose Monitors call fails leaves the ID and
\* every attribute as they were.
C8_ErrorKeepsState ==
    /\ (last.op = "Delete" /\ ~last.calls[1].ok) =>
          (last.err /\ id = last.d0.id /\ id # "")
    /\ (last.op = "Update" /\ ~last.calls[1].ok) =>
          /\ last.err
          /\ id = last.d0.id
          /\ attrs = last.d0.attrs
          /\ ApiSeq(last.calls) = << "ModifyMonitor" >>
    /\ (last.op = "Read" /\ ~last.calls[1].ok) =>
          (last.err /\ id = last.d0.id /\ attrs = last.d0.attrs)

C8_Witness ==
    /\ last.op = "Delete"
    /\ ~last.calls[1].ok
    /\ last.err
    /\ HasMonitor(device, id)

\* C9: a Create whose CreateMonitor succeeded and whose ModifyMonitor or
\* Monitors call then failed returns an error with the ID set to the monitor's
\* name and the monitor on the device; no Create that made the monitor leaves
\* the ID unset while the device has the monitor.
C9_PartialCreateKeepsId ==
    (last.op = "Create" /\ last.calls[1].ok) =>
        /\ last.err => (id = last.d0.attrs.name /\ HasMonitor(device, id))
        /\ HasMonitor(device, last.d0.attrs.name) => id = last.d0.attrs.name

C9_Witness ==
    /\ last.op = "Create"
    /\ Len(last.calls) = 3
    /\ ~last.calls[3].ok
    /\ last.err
    /\ id = ManagedName
    /\ HasMonitor(device, id)

====
